---- MODULE Spec2Model ----
(***************************************************************************)
(* paket_stellar: composition of the escrow and relay transaction bundles  *)
(* (prepare_escrow, prepare_relay) and their submission to the ledger.     *)
(*                                                                         *)
(* The composer is modelled step by step, one step per gen_builder call,   *)
(* because every gen_builder call fetches the account from the horizon     *)
(* server again and the ledger may move between two fetches.               *)
(*                                                                         *)
(* The ledger is the environment: it validates an envelope against the     *)
(* account's sequence number, the time bounds, and the signer weights and  *)
(* thresholds, consumes the sequence number of every valid transaction     *)
(* and applies its operations all or nothing.  Fees are not modelled and   *)
(* the native balance stays as it is.  The builder's sequence is the       *)
(* account sequence the transaction follows (the library encodes           *)
(* sequence + 1 and the ledger requires account sequence + 1, so a         *)
(* transaction built with sequence q is valid exactly when the account's   *)
(* sequence is q).                                                         *)
(*                                                                         *)
(* A second specification, SpecCalls, calls get_keypair, get_bul_account,  *)
(* add_memo and gen_builder on their own, on arguments drawn from bounded  *)
(* sets.                                                                   *)
(***************************************************************************)
EXTENDS Integers, Sequences, FiniteSets, TLC

VARIABLES
    kind,                       \* which function runs: "escrow", "relay",
                                \* or the name of a function called alone
    args,                       \* the arguments of the call
    acct,                       \* the account of the call on the ledger
    now,                        \* ledger close time
    history,                    \* transactions the ledger included, in order
    pc,                         \* position of the composer
    refund_envelope,
    payment_envelope,
    merge_envelope,
    relay_envelope,
    sequence_merge_envelope,
    timelock_merge_envelope,
    set_options_envelope,
    snapshots,                  \* sequences the composer fetched, in order
    details,                    \* the value the call returned
    raised                      \* the exception the call ended with

vars == <<kind, args, acct, now, history, pc, refund_envelope,
          payment_envelope, merge_envelope, relay_envelope,
          sequence_merge_envelope, timelock_merge_envelope,
          set_options_envelope, snapshots, details, raised>>

None == "None"

----------------------------------------------------------------------------
(* Bounds of the model *)

MaxTime == 2            \* ledger time runs over 0..MaxTime, deadlines
                        \* are drawn from 1..MaxTime - 1
MaxAmount == 1          \* payment in 1..MaxAmount, collateral in 0..MaxAmount
MaxBalance == 2         \* initial BUL balance of the account, in stroops
MaxForeign == 1         \* transactions that are not of the bundle
MaxMemoLen == 30        \* characters of a memo text given to add_memo
MaxDelta == 2           \* sequence_delta given to gen_builder alone

----------------------------------------------------------------------------
(* Program constants *)

BUL_TOKEN_CODE == "BUL"
ISSUER == "PAKET_ISSUER_PUBKEY"
max_byte_length == 28
STROOPS_IN_UNIT == 10000000
InitialSequence == 1

\* the memo texts, as sequences of characters
MemoRefund == <<"r","e","f","u","n","d">>
MemoPayment == <<"p","a","y","m","e","n","t">>
MemoCloseEscrow == <<"c","l","o","s","e"," ","e","s","c","r","o","w">>
MemoFreeze == <<"f","r","e","e","z","e">>
MemoRelay == <<"r","e","l","a","y">>
MemoCloseRelay == <<"c","l","o","s","e"," ","r","e","l","a","y">>

----------------------------------------------------------------------------
(* util.conversion and the library's amount encoding *)

\* stroops -> decimal units text: whole units and a 7 digit fraction
stroops_to_units(stroops) ==
    <<stroops \div STROOPS_IN_UNIT, stroops % STROOPS_IN_UNIT>>

\* the amount the envelope carries on the ledger, in stroops
units_to_stroops(units) == units[1] * STROOPS_IN_UNIT + units[2]

----------------------------------------------------------------------------
(* The builder *)

\* Builder(address, sequence): an empty transaction
Builder(address, sequence) ==
    [address |-> address, sequence |-> sequence, ops |-> <<>>,
     time_bounds |-> <<>>, memo |-> None]

append_payment_op(builder, destination, amount, asset_code, asset_issuer) ==
    [builder EXCEPT !.ops = Append(@,
        [type |-> "payment", destination |-> destination, amount |-> amount,
         asset_code |-> asset_code, asset_issuer |-> asset_issuer])]

append_change_trust_op(builder, asset_code, asset_issuer, limit) ==
    [builder EXCEPT !.ops = Append(@,
        [type |-> "change_trust", asset_code |-> asset_code,
         asset_issuer |-> asset_issuer, limit |-> limit])]

append_account_merge_op(builder, destination) ==
    [builder EXCEPT !.ops = Append(@,
        [type |-> "account_merge", destination |-> destination])]

append_set_signer_op(builder, signer_address, signer_type, signer_weight) ==
    [builder EXCEPT !.ops = Append(@,
        [type |-> "set_options", signer_address |-> signer_address,
         signer_type |-> signer_type, signer_weight |-> signer_weight])]

append_set_thresholds_op(builder, master_weight, low, med, high) ==
    [builder EXCEPT !.ops = Append(@,
        [type |-> "set_options", master_weight |-> master_weight,
         low_threshold |-> low, med_threshold |-> med,
         high_threshold |-> high])]

add_time_bounds(builder, time_bounds) ==
    [builder EXCEPT !.time_bounds = Append(@, time_bounds)]

\* the bytes str.encode('utf-8') gives one character: the accented
\* character U+00E9 takes two bytes, an ASCII character one
Utf8(c) == IF c = "U+00E9" THEN <<"0xC3", "0xA9">> ELSE <<c>>

\* memo.encode('utf-8'): the bytes of the text, as the ledger stores a memo
RECURSIVE encode(_)
encode(memo) ==
    IF memo = <<>> THEN <<>> ELSE Utf8(Head(memo)) \o encode(Tail(memo))

\* add_memo: a memo with limited length
add_memo(builder, memo) ==
    [builder EXCEPT !.memo =
        IF Len(memo) > max_byte_length
        THEN SubSeq(memo, 1, max_byte_length)
        ELSE memo]

\* gen_te: the envelope of the transaction built so far, unsigned
gen_te(builder) == [tx |-> builder, signatures |-> {}]

\* hash_meta: the content hash of the transaction, signatures excluded
hash_meta(te) ==
    <<"hash", te.tx.address, te.tx.sequence, te.tx.time_bounds, te.tx.memo,
      te.tx.ops>>

\* xdr().decode(): the serialized envelope
xdr(te) ==
    <<"xdr", te.tx.address, te.tx.sequence, te.tx.time_bounds, te.tx.memo,
      te.tx.ops, te.signatures>>

\* import_from_xdr: the envelope a serialized text denotes
import_from_xdr(text) ==
    [tx |-> [address |-> text[2], sequence |-> text[3], ops |-> text[6],
             time_bounds |-> text[4], memo |-> text[5]],
     signatures |-> text[7]]

----------------------------------------------------------------------------
(* The ledger behind builder.submit()                                      *)
(*                                                                         *)
(* An envelope is valid when the account exists, the transaction follows   *)
(* the account's sequence, the close time is within the time bounds, and   *)
(* the signers that authorize it reach the low threshold and, for every    *)
(* operation, the threshold of its class: allow_trust low; payment and     *)
(* change_trust medium; account_merge and a set_options that changes       *)
(* signers, master weight or thresholds high.  A pre-authorized hash       *)
(* counts for the transaction with that hash, a key for its signature.     *)
(* A valid envelope consumes the sequence number and its one-time signer   *)
(* whether or not its operations succeed; operations apply all or nothing. *)

\* the threshold class an operation needs
NeededThreshold(a, op) ==
    CASE op.type = "allow_trust" -> a.thresholds.low
      [] op.type = "payment" -> a.thresholds.med
      [] op.type = "change_trust" -> a.thresholds.med
      [] op.type = "account_merge" -> a.thresholds.high
      [] op.type = "set_options" -> a.thresholds.high

\* the weight one signer of the account gives the envelope
WeightOf(s, te) ==
    IF s.type = "preAuthTx"
    THEN IF s.address = hash_meta(te) THEN s.weight ELSE 0
    ELSE IF s.address \in te.signatures THEN s.weight ELSE 0

RECURSIVE SumWeights(_, _, _)
SumWeights(signers, te, i) ==
    IF i > Len(signers) THEN 0
    ELSE WeightOf(signers[i], te) + SumWeights(signers, te, i + 1)

\* the summed weight of the signers that authorize the envelope
SignatureWeight(a, te) ==
    (IF a.address \in te.signatures THEN a.master_weight ELSE 0)
    + SumWeights(a.signers, te, 1)

\* at least one signer counts, and the signers reach the needed weight
checkSignature(a, te, needed) ==
    /\ SignatureWeight(a, te) > 0
    /\ SignatureWeight(a, te) >= needed

\* a signature that belongs to no signer of the account is rejected
AllSignaturesUsed(a, te) ==
    \A k \in te.signatures :
        \/ k = a.address /\ a.master_weight > 0
        \/ \E i \in DOMAIN a.signers :
              /\ a.signers[i].type = "ed25519PublicKey"
              /\ a.signers[i].address = k

TimeBoundsOK(te, t) ==
    \A i \in DOMAIN te.tx.time_bounds :
        /\ t >= te.tx.time_bounds[i].minTime
        /\ \/ te.tx.time_bounds[i].maxTime = 0
           \/ t <= te.tx.time_bounds[i].maxTime

\* the ledger accepts the envelope at ledger time t
TxValid(a, te, t) ==
    /\ a.exists
    /\ te.tx.address = a.address
    /\ te.tx.sequence = a.sequence
    /\ Len(te.tx.ops) > 0
    /\ TimeBoundsOK(te, t)
    /\ checkSignature(a, te, a.thresholds.low)
    /\ \A i \in DOMAIN te.tx.ops :
          checkSignature(a, te, NeededThreshold(a, te.tx.ops[i]))
    /\ AllSignaturesUsed(a, te)

RECURSIVE RemoveSigner(_, _)
RemoveSigner(signers, address) ==
    IF signers = <<>> THEN <<>>
    ELSE IF Head(signers).type = address[1] /\ Head(signers).address = address[2]
         THEN RemoveSigner(Tail(signers), address)
         ELSE <<Head(signers)>> \o RemoveSigner(Tail(signers), address)

\* one operation on the account: the result and the account after it
ApplyOp(a, op) ==
    CASE op.type = "allow_trust" ->
            \* the account is no issuer that requires authorization
            [ok |-> FALSE, acct |-> a]
      [] op.type = "payment" ->
            IF a.trust /\ a.bul_balance >= units_to_stroops(op.amount)
            THEN [ok |-> TRUE,
                  acct |-> [a EXCEPT !.bul_balance =
                                @ - units_to_stroops(op.amount)]]
            ELSE [ok |-> FALSE, acct |-> a]
      [] op.type = "change_trust" ->
            \* a limit below the balance, or 0 with no trust line, is invalid
            IF op.limit = "0"
            THEN IF a.trust /\ a.bul_balance = 0
                 THEN [ok |-> TRUE, acct |-> [a EXCEPT !.trust = FALSE]]
                 ELSE [ok |-> FALSE, acct |-> a]
            ELSE [ok |-> TRUE, acct |-> [a EXCEPT !.trust = TRUE]]
      [] op.type = "account_merge" ->
            \* an account with a trust line cannot be merged
            IF ~a.trust
            THEN [ok |-> TRUE, acct |-> [a EXCEPT !.exists = FALSE]]
            ELSE [ok |-> FALSE, acct |-> a]
      [] op.type = "set_options" ->
            IF "signer_address" \in DOMAIN op
            THEN [ok |-> TRUE,
                  acct |-> [a EXCEPT !.signers =
                     RemoveSigner(@, <<op.signer_type, op.signer_address>>)
                     \o (IF op.signer_weight > 0
                         THEN <<[address |-> op.signer_address,
                                 type |-> op.signer_type,
                                 weight |-> op.signer_weight]>>
                         ELSE <<>>)]]
            ELSE [ok |-> TRUE,
                  acct |-> [a EXCEPT !.master_weight = op.master_weight,
                                     !.thresholds =
                                        [low |-> op.low_threshold,
                                         med |-> op.med_threshold,
                                         high |-> op.high_threshold]]]

RECURSIVE ApplyOps(_, _, _)
ApplyOps(a, ops, i) ==
    IF i > Len(ops) THEN [ok |-> TRUE, acct |-> a]
    ELSE LET r == ApplyOp(a, ops[i])
         IN  IF r.ok THEN ApplyOps(r.acct, ops, i + 1)
             ELSE [ok |-> FALSE, acct |-> a]

\* the account once the sequence number and the one-time signer are consumed
Consume(a, te) ==
    [a EXCEPT !.sequence = te.tx.sequence + 1,
              !.signers = RemoveSigner(@, <<"preAuthTx", hash_meta(te)>>)]

\* a valid envelope enters the ledger: its operations apply all or nothing
ApplyTx(a, te) ==
    LET r == ApplyOps(Consume(a, te), te.tx.ops, 1)
    IN  IF r.ok THEN r ELSE [ok |-> FALSE, acct |-> Consume(a, te)]

----------------------------------------------------------------------------
(* Account lookup and the builder of a transaction *)

\* details.balances: the balances the ledger reports for the account, in
\* units: the native one, those of other assets, and the BUL balance with
\* its limit when the account has a trust line to BUL of the issuer
Balances(a) ==
    <<[asset_type |-> "native", balance |-> stroops_to_units(a.xlm_balance)]>>
    \o a.other_balances
    \o (IF a.trust
        THEN <<[asset_type |-> "credit_alphanum4",
                asset_code |-> BUL_TOKEN_CODE, asset_issuer |-> ISSUER,
                balance |-> stroops_to_units(a.bul_balance),
                limit |-> stroops_to_units(a.bul_limit)]>>
        ELSE <<>>)

\* balance.get(key): None when the entry has no such key
get(balance, key) == IF key \in DOMAIN balance THEN balance[key] ELSE None

\* the BUL test that looks at the asset code only
IsBulBalance_AnyIssuer(balance) ==
    get(balance, "asset_code") = BUL_TOKEN_CODE

\* the entry is the balance of BUL of the configured issuer
IsBulBalance(balance) ==
    /\ get(balance, "asset_code") = BUL_TOKEN_CODE
    /\ get(balance, "asset_issuer") = ISSUER

\* the loop over details.balances, from entry i on: the native entry sets
\* xlm_balance, the BUL entry sets bul_balance and bul_limit, in stroops
RECURSIVE account_balances(_, _, _)
account_balances(account, balances, i) ==
    IF i > Len(balances) THEN account
    ELSE LET balance == balances[i]
             native ==
                IF get(balance, "asset_type") = "native"
                THEN [xlm_balance |-> units_to_stroops(balance.balance)]
                     @@ account
                ELSE account
             bul ==
                IF IsBulBalance(balance)
                THEN [bul_balance |-> units_to_stroops(balance.balance),
                      bul_limit |-> units_to_stroops(balance.limit)]
                     @@ native
                ELSE native
         IN  account_balances(bul, balances, i + 1)

\* get_bul_account: the account details, or the exception it raises
get_bul_account(a, pubkey, accept_untrusted) ==
    IF ~(a.exists /\ a.address = pubkey)
    THEN [error |-> "StellarAccountNotExists"]
    ELSE LET account ==
                account_balances(
                    [error |-> None, sequence |-> a.sequence,
                     signers |-> a.signers, thresholds |-> a.thresholds],
                    Balances(a), 1)
         IN  IF "bul_balance" \notin DOMAIN account /\ ~accept_untrusted
             THEN [error |-> "TrustError"]
             ELSE account

\* an optional argument: <<>> when omitted (None), <<v>> when given
Given(v) == <<v>>
Omitted == <<>>

\* the truth value of an optional integer: None and 0 are false
Truthy(sequence_delta) ==
    sequence_delta # Omitted /\ sequence_delta[1] # 0

\* gen_builder that builds at the account's sequence whatever the delta
gen_builder_NoDelta(a, pubkey, sequence_delta) ==
    Builder(pubkey, a.sequence)

\* gen_builder: a builder at the fetched sequence plus the delta; with no
\* delta (None or 0) the library's builder fetches the sequence itself
gen_builder(a, pubkey, sequence_delta) ==
    IF Truthy(sequence_delta)
    THEN Builder(pubkey,
                 get_bul_account(a, pubkey, TRUE).sequence + sequence_delta[1])
    ELSE Builder(pubkey, a.sequence)

\* gen_builder that leaves every fetch of the account to the library
gen_builder_error_LibraryFetch(a, pubkey, sequence_delta) ==
    IF a.exists /\ a.address = pubkey THEN None ELSE "AccountNotExistError"

\* the exception gen_builder ends with on the account, None when it returns
gen_builder_error(a, pubkey, sequence_delta) ==
    IF Truthy(sequence_delta)
    THEN get_bul_account(a, pubkey, TRUE).error
    ELSE IF a.exists /\ a.address = pubkey THEN None ELSE "AccountNotExistError"

----------------------------------------------------------------------------
(* Keypairs *)

\* the seeds the library accepts and the address each seed derives
Seeds == {"seed 1", "seed 2"}
AddressOf(seed) == IF seed = "seed 1" THEN "address 1" ELSE "address 2"
Addresses == {AddressOf(seed) : seed \in Seeds}

\* Keypair.from_seed: the pair of the seed and the address it derives
from_seed(seed) ==
    IF seed \in Seeds
    THEN [error |-> None, verifying_key |-> AddressOf(seed),
          signing_key |-> seed]
    ELSE [error |-> "StellarSecretInvalidError"]

\* Keypair.from_address: the address alone, with no signing key
from_address(pubkey) ==
    IF pubkey \in Addresses
    THEN [error |-> None, verifying_key |-> pubkey, signing_key |-> None]
    ELSE [error |-> "StellarAddressInvalidError"]

\* the class get_keypair gives the keypair, for its string representation
WithClass(keypair, class) ==
    IF keypair.error # None THEN keypair
    ELSE [class |-> class] @@ keypair

\* get_keypair that prefers the seed when both arguments are given
get_keypair_SeedFirst(pubkey, seed, random) ==
    IF seed = Omitted
    THEN IF pubkey = Omitted
         THEN WithClass(from_seed(random), "DisplayUnlockedKeypair")
         ELSE WithClass(from_address(pubkey[1]), "DisplayKeypair")
    ELSE WithClass(from_seed(seed[1]), "DisplayUnlockedKeypair")

\* get_keypair(pubkey, seed): pubkey and seed are optional; random is the
\* seed Keypair.random() draws when both are omitted
get_keypair(pubkey, seed, random) ==
    IF pubkey = Omitted
    THEN IF seed = Omitted
         THEN WithClass(from_seed(random), "DisplayUnlockedKeypair")
         ELSE WithClass(from_seed(seed[1]), "DisplayUnlockedKeypair")
    ELSE WithClass(from_address(pubkey[1]), "DisplayKeypair")

----------------------------------------------------------------------------
(* prepare_escrow *)

\* the total that covers the payment only
EscrowTotal_PaymentOnly == stroops_to_units(args.payment)

EscrowTotal == stroops_to_units(args.payment + args.collateral)

\* the refund transaction built without its time bounds
RefundEnvelope_NoTimeBounds(a) ==
    gen_te(add_memo(
        append_payment_op(gen_builder(a, args.escrow_pubkey, Given(1)),
            args.launcher_pubkey, EscrowTotal, BUL_TOKEN_CODE, ISSUER),
        MemoRefund))

\* Refund transaction, in case of failed delivery, timelocked.
RefundEnvelope(a) ==
    gen_te(add_memo(
        add_time_bounds(
            append_payment_op(gen_builder(a, args.escrow_pubkey, Given(1)),
                args.launcher_pubkey, EscrowTotal, BUL_TOKEN_CODE, ISSUER),
            [minTime |-> args.deadline, maxTime |-> 0]),
        MemoRefund))

\* the payment transaction built one sequence number after the refund
PaymentEnvelope_Offset2(a) ==
    gen_te(add_memo(
        append_payment_op(gen_builder(a, args.escrow_pubkey, Given(2)),
            args.courier_pubkey, EscrowTotal, BUL_TOKEN_CODE, ISSUER),
        MemoPayment))

\* Payment transaction, in case of successful delivery.
PaymentEnvelope(a) ==
    gen_te(add_memo(
        append_payment_op(gen_builder(a, args.escrow_pubkey, Given(1)),
            args.courier_pubkey, EscrowTotal, BUL_TOKEN_CODE, ISSUER),
        MemoPayment))

\* Merge transaction, to drain the remaining XLM from the account.
MergeEnvelope(a) ==
    gen_te(add_memo(
        append_account_merge_op(
            append_change_trust_op(gen_builder(a, args.escrow_pubkey, Given(2)),
                BUL_TOKEN_CODE, ISSUER, "0"),
            args.launcher_pubkey),
        MemoCloseEscrow))

\* the freeze with the payment hash registered at weight 2
EscrowSetOptionsEnvelope_PaymentWeight2(a) ==
    gen_te(add_memo(
        append_set_thresholds_op(
            append_set_signer_op(
                append_set_signer_op(
                    append_set_signer_op(
                        append_set_signer_op(
                            gen_builder(a, args.escrow_pubkey, Omitted),
                            hash_meta(refund_envelope), "preAuthTx", 2),
                        hash_meta(payment_envelope), "preAuthTx", 2),
                    hash_meta(merge_envelope), "preAuthTx", 3),
                args.recipient_pubkey, "ed25519PublicKey", 1),
            0, 1, 2, 3),
        MemoFreeze))

\* the freeze that leaves the master key at weight 1
EscrowSetOptionsEnvelope_MasterLive(a) ==
    gen_te(add_memo(
        append_set_thresholds_op(
            append_set_signer_op(
                append_set_signer_op(
                    append_set_signer_op(
                        append_set_signer_op(
                            gen_builder(a, args.escrow_pubkey, Omitted),
                            hash_meta(refund_envelope), "preAuthTx", 2),
                        hash_meta(payment_envelope), "preAuthTx", 1),
                    hash_meta(merge_envelope), "preAuthTx", 3),
                args.recipient_pubkey, "ed25519PublicKey", 1),
            1, 1, 2, 3),
        MemoFreeze))

\* the freeze with the weights of the refund and the merge hash swapped
EscrowSetOptionsEnvelope_SwappedWeights(a) ==
    gen_te(add_memo(
        append_set_thresholds_op(
            append_set_signer_op(
                append_set_signer_op(
                    append_set_signer_op(
                        append_set_signer_op(
                            gen_builder(a, args.escrow_pubkey, Omitted),
                            hash_meta(refund_envelope), "preAuthTx", 3),
                        hash_meta(payment_envelope), "preAuthTx", 1),
                    hash_meta(merge_envelope), "preAuthTx", 2),
                args.recipient_pubkey, "ed25519PublicKey", 1),
            0, 1, 2, 3),
        MemoFreeze))

\* the freeze with the medium threshold set to 1
EscrowSetOptionsEnvelope_MedThreshold1(a) ==
    gen_te(add_memo(
        append_set_thresholds_op(
            append_set_signer_op(
                append_set_signer_op(
                    append_set_signer_op(
                        append_set_signer_op(
                            gen_builder(a, args.escrow_pubkey, Omitted),
                            hash_meta(refund_envelope), "preAuthTx", 2),
                        hash_meta(payment_envelope), "preAuthTx", 1),
                    hash_meta(merge_envelope), "preAuthTx", 3),
                args.recipient_pubkey, "ed25519PublicKey", 1),
            0, 1, 1, 3),
        MemoFreeze))

\* Set transactions and recipient as only signers.
EscrowSetOptionsEnvelope(a) ==
    gen_te(add_memo(
        append_set_thresholds_op(
            append_set_signer_op(
                append_set_signer_op(
                    append_set_signer_op(
                        append_set_signer_op(
                            gen_builder(a, args.escrow_pubkey, Omitted),
                            hash_meta(refund_envelope), "preAuthTx", 2),
                        hash_meta(payment_envelope), "preAuthTx", 1),
                    hash_meta(merge_envelope), "preAuthTx", 3),
                args.recipient_pubkey, "ed25519PublicKey", 1),
            0, 1, 2, 3),
        MemoFreeze))

\* the bundle whose refund transaction got another memo after it was hashed
escrow_details_RefundChangedAfterHash(set_options) ==
    [escrow_pubkey |-> args.escrow_pubkey,
     launcher_pubkey |-> args.launcher_pubkey,
     recipient_pubkey |-> args.recipient_pubkey,
     payment |-> args.payment, collateral |-> args.collateral,
     deadline |-> args.deadline,
     set_options_transaction |-> xdr(set_options),
     refund_transaction |->
        xdr(gen_te(add_memo(refund_envelope.tx, MemoCloseEscrow))),
     payment_transaction |-> xdr(payment_envelope),
     merge_transaction |-> xdr(merge_envelope)]

escrow_details(set_options) ==
    [escrow_pubkey |-> args.escrow_pubkey,
     launcher_pubkey |-> args.launcher_pubkey,
     recipient_pubkey |-> args.recipient_pubkey,
     payment |-> args.payment, collateral |-> args.collateral,
     deadline |-> args.deadline,
     set_options_transaction |-> xdr(set_options),
     refund_transaction |-> xdr(refund_envelope),
     payment_transaction |-> xdr(payment_envelope),
     merge_transaction |-> xdr(merge_envelope)]

\* a raising gen_builder call after which the call hands back a bundle
Raise_ReturnsHalfBuilt(error) ==
    /\ pc' = "raised"
    /\ raised' = error
    /\ details' = "half-built"
    /\ UNCHANGED <<refund_envelope, payment_envelope, merge_envelope,
                   relay_envelope, sequence_merge_envelope,
                   timelock_merge_envelope, set_options_envelope,
                   snapshots>>

\* a gen_builder call that raises ends the whole call
Raise(error) ==
    /\ pc' = "raised"
    /\ raised' = error
    /\ UNCHANGED <<refund_envelope, payment_envelope, merge_envelope,
                   relay_envelope, sequence_merge_envelope,
                   timelock_merge_envelope, set_options_envelope,
                   snapshots, details>>

EscrowRefund ==
    /\ kind = "escrow" /\ pc = "refund"
    /\ IF gen_builder_error(acct, args.escrow_pubkey, Given(1)) # None
       THEN Raise(gen_builder_error(acct, args.escrow_pubkey, Given(1)))
       ELSE /\ refund_envelope' = RefundEnvelope(acct)
            /\ snapshots' = Append(snapshots, acct.sequence)
            /\ pc' = "payment"
            /\ UNCHANGED <<payment_envelope, merge_envelope, relay_envelope,
                           sequence_merge_envelope, timelock_merge_envelope,
                           set_options_envelope, details, raised>>
    /\ UNCHANGED <<kind, args, acct, now, history>>

EscrowPayment ==
    /\ kind = "escrow" /\ pc = "payment"
    /\ IF gen_builder_error(acct, args.escrow_pubkey, Given(1)) # None
       THEN Raise(gen_builder_error(acct, args.escrow_pubkey, Given(1)))
       ELSE /\ payment_envelope' = PaymentEnvelope(acct)
            /\ snapshots' = Append(snapshots, acct.sequence)
            /\ pc' = "merge"
            /\ UNCHANGED <<refund_envelope, merge_envelope, relay_envelope,
                           sequence_merge_envelope, timelock_merge_envelope,
                           set_options_envelope, details, raised>>
    /\ UNCHANGED <<kind, args, acct, now, history>>

EscrowMerge ==
    /\ kind = "escrow" /\ pc = "merge"
    /\ IF gen_builder_error(acct, args.escrow_pubkey, Given(2)) # None
       THEN Raise(gen_builder_error(acct, args.escrow_pubkey, Given(2)))
       ELSE /\ merge_envelope' = MergeEnvelope(acct)
            /\ snapshots' = Append(snapshots, acct.sequence)
            /\ pc' = "set_options"
            /\ UNCHANGED <<refund_envelope, payment_envelope, relay_envelope,
                           sequence_merge_envelope, timelock_merge_envelope,
                           set_options_envelope, details, raised>>
    /\ UNCHANGED <<kind, args, acct, now, history>>

EscrowFreeze ==
    /\ kind = "escrow" /\ pc = "set_options"
    /\ IF gen_builder_error(acct, args.escrow_pubkey, Omitted) # None
       THEN Raise(gen_builder_error(acct, args.escrow_pubkey, Omitted))
       ELSE /\ set_options_envelope' = EscrowSetOptionsEnvelope(acct)
            /\ details' = escrow_details(EscrowSetOptionsEnvelope(acct))
            /\ snapshots' = Append(snapshots, acct.sequence)
            /\ pc' = "done"
            /\ UNCHANGED <<refund_envelope, payment_envelope, merge_envelope,
                           relay_envelope, sequence_merge_envelope,
                           timelock_merge_envelope, raised>>
    /\ UNCHANGED <<kind, args, acct, now, history>>

----------------------------------------------------------------------------
(* prepare_relay *)

\* Relay transaction, splitting a payment between a relayer and a relayee.
RelayEnvelope(a) ==
    gen_te(add_memo(
        append_payment_op(
            append_payment_op(gen_builder(a, args.relay_pubkey, Given(1)),
                args.relayer_pubkey, stroops_to_units(args.relayer_stroops),
                BUL_TOKEN_CODE, ISSUER),
            args.relayee_pubkey, stroops_to_units(args.relayee_stroops),
            BUL_TOKEN_CODE, ISSUER),
        MemoRelay))

\* the sequence-merge built at the sequence of the relay transaction
SequenceMergeEnvelope_Offset1(a) ==
    gen_te(add_memo(
        append_account_merge_op(
            append_change_trust_op(gen_builder(a, args.relay_pubkey, Given(1)),
                BUL_TOKEN_CODE, ISSUER, "0"),
            args.relayer_pubkey),
        MemoCloseRelay))

\* Merge transaction, once the relay transaction was submitted.
SequenceMergeEnvelope(a) ==
    gen_te(add_memo(
        append_account_merge_op(
            append_change_trust_op(gen_builder(a, args.relay_pubkey, Given(2)),
                BUL_TOKEN_CODE, ISSUER, "0"),
            args.relayer_pubkey),
        MemoCloseRelay))

\* the timelock-merge built one sequence number after the relay transaction
TimelockMergeEnvelope_Offset2(a) ==
    gen_te(add_memo(
        add_time_bounds(
            append_account_merge_op(
                append_change_trust_op(gen_builder(a, args.relay_pubkey, Given(2)),
                    BUL_TOKEN_CODE, ISSUER, "0"),
                args.relayer_pubkey),
            [minTime |-> args.deadline, maxTime |-> 0]),
        MemoCloseRelay))

\* Merge transaction, even if the relay transaction was not submitted, but
\* only after the deadline has passed.
TimelockMergeEnvelope(a) ==
    gen_te(add_memo(
        add_time_bounds(
            append_account_merge_op(
                append_change_trust_op(gen_builder(a, args.relay_pubkey, Given(1)),
                    BUL_TOKEN_CODE, ISSUER, "0"),
                args.relayer_pubkey),
            [minTime |-> args.deadline, maxTime |-> 0]),
        MemoCloseRelay))

\* the relay freeze with the thresholds of the escrow freeze
RelaySetOptionsEnvelope_EscrowThresholds(a) ==
    gen_te(add_memo(
        append_set_thresholds_op(
            append_set_signer_op(
                append_set_signer_op(
                    append_set_signer_op(
                        gen_builder(a, args.relay_pubkey, Omitted),
                        hash_meta(relay_envelope), "preAuthTx", 1),
                    hash_meta(sequence_merge_envelope), "preAuthTx", 1),
                hash_meta(timelock_merge_envelope), "preAuthTx", 1),
            0, 1, 2, 3),
        MemoFreeze))

\* Set transactions as only signers.
RelaySetOptionsEnvelope(a) ==
    gen_te(add_memo(
        append_set_thresholds_op(
            append_set_signer_op(
                append_set_signer_op(
                    append_set_signer_op(
                        gen_builder(a, args.relay_pubkey, Omitted),
                        hash_meta(relay_envelope), "preAuthTx", 1),
                    hash_meta(sequence_merge_envelope), "preAuthTx", 1),
                hash_meta(timelock_merge_envelope), "preAuthTx", 1),
            0, 1, 1, 1),
        MemoFreeze))

relay_details(set_options) ==
    [relay_pubkey |-> args.relay_pubkey,
     relayer_pubkey |-> args.relayer_pubkey,
     relayee_pubkey |-> args.relayee_pubkey,
     relayer_stroops |-> args.relayer_stroops,
     relayee_stroops |-> args.relayee_stroops,
     deadline |-> args.deadline,
     set_options_transaction |-> xdr(set_options),
     relay_transaction |-> xdr(relay_envelope),
     sequence_merge_transaction |-> xdr(sequence_merge_envelope),
     timelock_merge_transaction |-> xdr(timelock_merge_envelope)]

RelayRelay ==
    /\ kind = "relay" /\ pc = "relay"
    /\ IF gen_builder_error(acct, args.relay_pubkey, Given(1)) # None
       THEN Raise(gen_builder_error(acct, args.relay_pubkey, Given(1)))
       ELSE /\ relay_envelope' = RelayEnvelope(acct)
            /\ snapshots' = Append(snapshots, acct.sequence)
            /\ pc' = "sequence_merge"
            /\ UNCHANGED <<refund_envelope, payment_envelope, merge_envelope,
                           sequence_merge_envelope, timelock_merge_envelope,
                           set_options_envelope, details, raised>>
    /\ UNCHANGED <<kind, args, acct, now, history>>

RelaySequenceMerge ==
    /\ kind = "relay" /\ pc = "sequence_merge"
    /\ IF gen_builder_error(acct, args.relay_pubkey, Given(2)) # None
       THEN Raise(gen_builder_error(acct, args.relay_pubkey, Given(2)))
       ELSE /\ sequence_merge_envelope' = SequenceMergeEnvelope(acct)
            /\ snapshots' = Append(snapshots, acct.sequence)
            /\ pc' = "timelock_merge"
            /\ UNCHANGED <<refund_envelope, payment_envelope, merge_envelope,
                           relay_envelope, timelock_merge_envelope,
                           set_options_envelope, details, raised>>
    /\ UNCHANGED <<kind, args, acct, now, history>>

RelayTimelockMerge ==
    /\ kind = "relay" /\ pc = "timelock_merge"
    /\ IF gen_builder_error(acct, args.relay_pubkey, Given(1)) # None
       THEN Raise(gen_builder_error(acct, args.relay_pubkey, Given(1)))
       ELSE /\ timelock_merge_envelope' = TimelockMergeEnvelope(acct)
            /\ snapshots' = Append(snapshots, acct.sequence)
            /\ pc' = "set_options"
            /\ UNCHANGED <<refund_envelope, payment_envelope, merge_envelope,
                           relay_envelope, sequence_merge_envelope,
                           set_options_envelope, details, raised>>
    /\ UNCHANGED <<kind, args, acct, now, history>>

RelayFreeze ==
    /\ kind = "relay" /\ pc = "set_options"
    /\ IF gen_builder_error(acct, args.relay_pubkey, Omitted) # None
       THEN Raise(gen_builder_error(acct, args.relay_pubkey, Omitted))
       ELSE /\ set_options_envelope' = RelaySetOptionsEnvelope(acct)
            /\ details' = relay_details(RelaySetOptionsEnvelope(acct))
            /\ snapshots' = Append(snapshots, acct.sequence)
            /\ pc' = "done"
            /\ UNCHANGED <<refund_envelope, payment_envelope, merge_envelope,
                           relay_envelope, sequence_merge_envelope,
                           timelock_merge_envelope, raised>>
    /\ UNCHANGED <<kind, args, acct, now, history>>

----------------------------------------------------------------------------
(* Submission *)

\* the keys a party may sign with: the account's own and the parties'
Keys ==
    IF kind = "escrow"
    THEN {args.escrow_pubkey, args.launcher_pubkey, args.courier_pubkey,
          args.recipient_pubkey}
    ELSE {args.relay_pubkey, args.relayer_pubkey, args.relayee_pubkey}

\* the serialized transactions of the returned bundle
TransactionFields ==
    IF kind = "escrow"
    THEN {"set_options_transaction", "refund_transaction",
          "payment_transaction", "merge_transaction"}
    ELSE {"set_options_transaction", "relay_transaction",
          "sequence_merge_transaction", "timelock_merge_transaction"}

\* submit_transaction_envelope body: import the envelope, optionally sign it
SignedEnvelope(envelope, seed) ==
    IF seed # None
    THEN [import_from_xdr(envelope) EXCEPT !.signatures = @ \cup {seed}]
    ELSE import_from_xdr(envelope)

\* the ledger includes the envelope te; the history records it under the
\* given name with the type of its last operation, its result, its signatures
\* and, for a transaction with time bounds, the close time (0 otherwise)
Include(name, te) ==
    /\ TxValid(acct, te, now)
    /\ acct' = ApplyTx(acct, te).acct
    /\ history' = Append(history,
          [tx |-> name, type |-> te.tx.ops[Len(te.tx.ops)].type,
           time |-> IF te.tx.time_bounds = <<>> THEN 0 ELSE now,
           ok |-> ApplyTx(acct, te).ok,
           signatures |-> te.signatures])

\* submit_transaction_envelope on a transaction of the returned bundle; a
\* rejected submission raises StellarTransactionFailed and changes nothing
SubmitEnvelope ==
    /\ pc = "done"
    /\ \E field \in TransactionFields, seed \in Keys \cup {None} :
          Include(field, SignedEnvelope(details[field], seed))
    /\ UNCHANGED <<kind, args, now, pc, refund_envelope, payment_envelope,
                   merge_envelope, relay_envelope, sequence_merge_envelope,
                   timelock_merge_envelope, set_options_envelope, snapshots,
                   details, raised>>

NumForeign == Cardinality({i \in DOMAIN history : history[i].tx = "foreign"})

\* the one operation of a transaction that is not of the bundle
ForeignOp(type) ==
    CASE type = "allow_trust" -> [type |-> "allow_trust"]
      [] type = "payment" ->
            [type |-> "payment", destination |-> "other",
             amount |-> stroops_to_units(1), asset_code |-> BUL_TOKEN_CODE,
             asset_issuer |-> ISSUER]
      [] type = "account_merge" ->
            [type |-> "account_merge", destination |-> "other"]

\* any party submits a transaction of its own making for the account, at
\* the account's current sequence, signed with any of the keys: one
\* operation of the low class (allow_trust), of the medium class (a payment
\* of one stroop of BUL to another account) or of the high class (a merge
\* into another account)
SubmitForeign ==
    /\ NumForeign < MaxForeign
    /\ \E type \in {"allow_trust", "payment", "account_merge"},
          signatures \in SUBSET Keys :
          Include("foreign",
              [tx |-> [Builder(acct.address, acct.sequence)
                          EXCEPT !.ops = <<ForeignOp(type)>>],
               signatures |-> signatures])
    /\ UNCHANGED <<kind, args, now, pc, refund_envelope, payment_envelope,
                   merge_envelope, relay_envelope, sequence_merge_envelope,
                   timelock_merge_envelope, set_options_envelope, snapshots,
                   details, raised>>

\* the ledger closes at a later time
Tick ==
    /\ now < MaxTime
    /\ now' = now + 1
    /\ UNCHANGED <<kind, args, acct, history, pc, refund_envelope,
                   payment_envelope, merge_envelope, relay_envelope,
                   sequence_merge_envelope, timelock_merge_envelope,
                   set_options_envelope, snapshots, details, raised>>

----------------------------------------------------------------------------
(* The specification *)

\* a new account, as create_account leaves it: the master key of weight 1
\* is its only signer and the thresholds are 0
NewAccount(address, exists, trust, balance) ==
    [address |-> address, exists |-> exists, sequence |-> InitialSequence,
     master_weight |-> 1, thresholds |-> [low |-> 0, med |-> 0, high |-> 0],
     signers |-> <<>>, trust |-> trust, bul_balance |-> balance,
     bul_limit |-> MaxBalance, xlm_balance |-> 0, other_balances |-> <<>>]

EscrowArgs ==
    [escrow_pubkey : {"escrow"}, launcher_pubkey : {"launcher"},
     courier_pubkey : {"courier"}, recipient_pubkey : {"recipient"},
     payment : 1..MaxAmount, collateral : 0..MaxAmount,
     deadline : 1..(MaxTime - 1)]

RelayArgs ==
    [relay_pubkey : {"relay"}, relayer_pubkey : {"relayer"},
     relayee_pubkey : {"relayee"}, relayer_stroops : 1..MaxAmount,
     relayee_stroops : 1..MaxAmount, deadline : 1..(MaxTime - 1)]

Init ==
    /\ kind \in {"escrow", "relay"}
    /\ args \in (IF kind = "escrow" THEN EscrowArgs ELSE RelayArgs)
    /\ \E exists \in BOOLEAN, trust \in BOOLEAN, balance \in 0..MaxBalance :
          /\ (balance > 0) => trust
          /\ trust => exists
          /\ acct = NewAccount(IF kind = "escrow" THEN args.escrow_pubkey
                               ELSE args.relay_pubkey, exists, trust, balance)
    /\ now = 0
    /\ history = <<>>
    /\ pc = IF kind = "escrow" THEN "refund" ELSE "relay"
    /\ refund_envelope = None
    /\ payment_envelope = None
    /\ merge_envelope = None
    /\ relay_envelope = None
    /\ sequence_merge_envelope = None
    /\ timelock_merge_envelope = None
    /\ set_options_envelope = None
    /\ snapshots = <<>>
    /\ details = None
    /\ raised = None

Next ==
    \/ EscrowRefund
    \/ EscrowPayment
    \/ EscrowMerge
    \/ EscrowFreeze
    \/ RelayRelay
    \/ RelaySequenceMerge
    \/ RelayTimelockMerge
    \/ RelayFreeze
    \/ SubmitEnvelope
    \/ SubmitForeign
    \/ Tick

Spec == Init /\ [][Next]_vars

----------------------------------------------------------------------------
(* The functions called on their own *)

\* a memo text of n characters: ASCII letters in turn, with accents = 1
\* every character, with accents = 2 every fourth one, is U+00E9
MemoText(n, accents) ==
    [i \in 1..n |->
        IF accents = 1 \/ (accents = 2 /\ i % 4 = 0)
        THEN "U+00E9"
        ELSE <<"a", "b", "c">>[(i % 3) + 1]]

AddMemoArgs ==
    [memo : {MemoText(n, accents) : n \in 0..MaxMemoLen, accents \in 0..2}]

GetBulAccountArgs == [pubkey : {"account"}, accept_untrusted : BOOLEAN]

\* the values of an optional argument
Optional(values) == {Omitted} \cup {Given(v) : v \in values}

GetKeypairArgs ==
    [pubkey : Optional(Addresses \cup {"invalid pubkey string"}),
     seed : Optional(Seeds \cup {"invalid seed string"})]

GenBuilderArgs ==
    [pubkey : {"account"}, sequence_delta : Optional(0..MaxDelta)]

\* what an account may hold besides lumens and BUL of the issuer: nothing,
\* an asset named BUL of another issuer, another asset of the issuer
OtherBalances ==
    {<<>>,
     <<[asset_type |-> "credit_alphanum4", asset_code |-> BUL_TOKEN_CODE,
        asset_issuer |-> "another issuer",
        balance |-> stroops_to_units(1),
        limit |-> stroops_to_units(MaxBalance)]>>,
     <<[asset_type |-> "credit_alphanum4", asset_code |-> "USD",
        asset_issuer |-> ISSUER,
        balance |-> stroops_to_units(1),
        limit |-> stroops_to_units(MaxBalance)]>>}

InitCalls ==
    /\ kind \in {"add_memo", "get_bul_account", "get_keypair", "gen_builder"}
    /\ args \in (CASE kind = "add_memo" -> AddMemoArgs
                   [] kind = "get_bul_account" -> GetBulAccountArgs
                   [] kind = "get_keypair" -> GetKeypairArgs
                   [] kind = "gen_builder" -> GenBuilderArgs)
    /\ IF kind = "get_bul_account"
       THEN \E exists \in BOOLEAN, trust \in BOOLEAN,
               balance \in 0..MaxBalance, other \in OtherBalances :
                /\ (balance > 0) => trust
                /\ trust => exists
                /\ (other # <<>>) => exists
                /\ acct = [NewAccount("account", exists, trust, balance)
                              EXCEPT !.other_balances = other]
       ELSE IF kind = "gen_builder"
       THEN \E exists \in BOOLEAN, trust \in BOOLEAN,
               sequence \in InitialSequence..(InitialSequence + MaxDelta) :
                /\ trust => exists
                /\ acct = [NewAccount("account", exists, trust, 0)
                              EXCEPT !.sequence = sequence]
       ELSE acct = NewAccount("account", TRUE, FALSE, 0)
    /\ now = 0
    /\ history = <<>>
    /\ pc = "call"
    /\ refund_envelope = None
    /\ payment_envelope = None
    /\ merge_envelope = None
    /\ relay_envelope = None
    /\ sequence_merge_envelope = None
    /\ timelock_merge_envelope = None
    /\ set_options_envelope = None
    /\ snapshots = <<>>
    /\ details = None
    /\ raised = None

\* add_memo(builder, memo) on a builder of the account
CallAddMemo ==
    /\ kind = "add_memo" /\ pc = "call"
    /\ details' = add_memo(Builder(acct.address, acct.sequence), args.memo)
    /\ pc' = "done"
    /\ UNCHANGED <<kind, args, acct, now, history, refund_envelope,
                   payment_envelope, merge_envelope, relay_envelope,
                   sequence_merge_envelope, timelock_merge_envelope,
                   set_options_envelope, snapshots, raised>>

\* get_bul_account(pubkey, accept_untrusted)
CallGetBulAccount ==
    /\ kind = "get_bul_account" /\ pc = "call"
    /\ LET account ==
              get_bul_account(acct, args.pubkey, args.accept_untrusted)
       IN  IF account.error # None
           THEN Raise(account.error)
           ELSE /\ details' = account
                /\ pc' = "done"
                /\ UNCHANGED <<refund_envelope, payment_envelope,
                               merge_envelope, relay_envelope,
                               sequence_merge_envelope,
                               timelock_merge_envelope,
                               set_options_envelope, snapshots, raised>>
    /\ UNCHANGED <<kind, args, acct, now, history>>

\* get_keypair(pubkey, seed)
CallGetKeypair ==
    /\ kind = "get_keypair" /\ pc = "call"
    /\ \E random \in Seeds :
          LET keypair == get_keypair(args.pubkey, args.seed, random)
          IN  IF keypair.error # None
              THEN Raise(keypair.error)
              ELSE /\ details' = keypair
                   /\ pc' = "done"
                   /\ UNCHANGED <<refund_envelope, payment_envelope,
                                  merge_envelope, relay_envelope,
                                  sequence_merge_envelope,
                                  timelock_merge_envelope,
                                  set_options_envelope, snapshots, raised>>
    /\ UNCHANGED <<kind, args, acct, now, history>>

\* gen_builder(pubkey, sequence_delta)
CallGenBuilder ==
    /\ kind = "gen_builder" /\ pc = "call"
    /\ IF gen_builder_error(acct, args.pubkey, args.sequence_delta) # None
       THEN Raise(gen_builder_error(acct, args.pubkey, args.sequence_delta))
       ELSE /\ details' = gen_builder(acct, args.pubkey, args.sequence_delta)
            /\ pc' = "done"
            /\ UNCHANGED <<refund_envelope, payment_envelope, merge_envelope,
                           relay_envelope, sequence_merge_envelope,
                           timelock_merge_envelope, set_options_envelope,
                           snapshots, raised>>
    /\ UNCHANGED <<kind, args, acct, now, history>>

NextCalls ==
    \/ CallAddMemo
    \/ CallGetBulAccount
    \/ CallGetKeypair
    \/ CallGenBuilder

SpecCalls == InitCalls /\ [][NextCalls]_vars

----------------------------------------------------------------------------
(* Reading the ledger history *)

\* the positions at which the ledger included the named transaction
Entries(name) == {i \in DOMAIN history : history[i].tx = name}

InLedger(name) == Entries(name) # {}

\* the freeze transaction of the bundle is in the ledger
Frozen == InLedger("set_options_transaction")

\* the positions of the history after the freeze transaction
AfterFreeze ==
    {i \in DOMAIN history :
        \E f \in Entries("set_options_transaction") : f < i}

\* every gen_builder call of the finished composition saw the same sequence
SameSnapshot ==
    /\ pc = "done"
    /\ \A i \in DOMAIN snapshots : snapshots[i] = snapshots[1]

\* the composer has built its first n transactions
Built(n) == Len(snapshots) >= n

\* a transaction of the bundle as it is submitted with the given signatures
Submitted(field, signatures) ==
    [import_from_xdr(details[field]) EXCEPT !.signatures = signatures]

\* a transaction that is not of the bundle, on the account as it stands
Foreign(type, signatures) ==
    [tx |-> [Builder(acct.address, acct.sequence)
                EXCEPT !.ops = <<ForeignOp(type)>>],
     signatures |-> signatures]

----------------------------------------------------------------------------
(* Escrow: refund and payment exclude each other *)

\* C1: once the freeze transaction of an escrow bundle is in the ledger, the
\* ledger never holds both the refund and the payment transaction.
C1_RefundPaymentExclusive ==
    (kind = "escrow" /\ Frozen) =>
        ~(InLedger("refund_transaction") /\ InLedger("payment_transaction"))

\* C1 witness: after the freeze the payment entered the ledger, the deadline
\* has passed and the refund, built for the sequence the payment consumed,
\* is not in the ledger.
C1_Witness ==
    /\ kind = "escrow" /\ Frozen
    /\ InLedger("payment_transaction")
    /\ refund_envelope.tx.sequence = payment_envelope.tx.sequence
    /\ now >= args.deadline
    /\ ~InLedger("refund_transaction")

----------------------------------------------------------------------------
(* Escrow: time bounds *)

\* C2: the refund transaction carries the time bounds minTime = deadline,
\* maxTime = 0, the payment transaction carries none, and the ledger never
\* includes the refund transaction at a time before the deadline.
C2_RefundNotBeforeDeadline ==
    (kind = "escrow") =>
        /\ Built(1) =>
              refund_envelope.tx.time_bounds =
                  <<[minTime |-> args.deadline, maxTime |-> 0]>>
        /\ Built(2) => payment_envelope.tx.time_bounds = <<>>
        /\ \A i \in Entries("refund_transaction") :
              history[i].time >= args.deadline

\* C2 witness: after the freeze the refund entered the ledger, at the very
\* time of the deadline.
C2_Witness ==
    /\ kind = "escrow" /\ Frozen
    /\ \E i \in Entries("refund_transaction") \cap AfterFreeze :
          history[i].time = args.deadline

----------------------------------------------------------------------------
(* Escrow: the payment needs the recipient *)

\* C3: after the freeze, the payment transaction enters the ledger only
\* with the recipient's signature: where its sequence is the account's, it
\* is invalid without a signature and valid with the recipient's.
C3_PaymentNeedsRecipient ==
    (kind = "escrow" /\ Frozen) =>
        /\ \A i \in Entries("payment_transaction") \cap AfterFreeze :
              args.recipient_pubkey \in history[i].signatures
        /\ (acct.exists /\ acct.sequence = payment_envelope.tx.sequence) =>
              /\ ~TxValid(acct, Submitted("payment_transaction", {}), now)
              /\ TxValid(acct, Submitted("payment_transaction",
                                         {args.recipient_pubkey}), now)

\* C3 witness: the payment entered the ledger after the freeze, signed by
\* the recipient alone.
C3_Witness ==
    /\ kind = "escrow" /\ Frozen
    /\ \E i \in Entries("payment_transaction") \cap AfterFreeze :
          history[i].signatures = {args.recipient_pubkey} /\ history[i].ok

----------------------------------------------------------------------------
(* One snapshot per bundle *)

\* C4: a finished composition has its freeze transaction at one observed
\* sequence S, the offset 1 transactions at S + 1 and the offset 2
\* transaction at S + 2, whatever the ledger did during the composition.
C4_OneSnapshot ==
    (pc = "done") =>
        LET S == set_options_envelope.tx.sequence
        IN  IF kind = "escrow"
            THEN /\ refund_envelope.tx.sequence = S + 1
                 /\ payment_envelope.tx.sequence = S + 1
                 /\ merge_envelope.tx.sequence = S + 2
            ELSE /\ relay_envelope.tx.sequence = S + 1
                 /\ timelock_merge_envelope.tx.sequence = S + 1
                 /\ sequence_merge_envelope.tx.sequence = S + 2

----------------------------------------------------------------------------
(* Escrow: who can move funds out *)

\* C5: after the freeze of an escrow bundle, no transaction other than the
\* bundle's needs more than the low threshold: a transaction with a payment
\* or an account merge that is not of the bundle is invalid under every set
\* of signatures, and none is in the ledger after the freeze.
C5_OnlyBundleMovesFunds ==
    (kind = "escrow" /\ Frozen) =>
        /\ \A type \in {"payment", "account_merge"},
              signatures \in SUBSET Keys :
              ~TxValid(acct, Foreign(type, signatures), now)
        /\ \A i \in Entries("foreign") \cap AfterFreeze :
              history[i].type = "allow_trust"
        /\ acct.master_weight = 0

\* C5 witness: after the freeze a transaction that is not of the bundle got
\* into the ledger, and the account still holds funds.
C5_Witness ==
    /\ kind = "escrow" /\ Frozen
    /\ Entries("foreign") \cap AfterFreeze # {}
    /\ acct.exists /\ acct.bul_balance > 0

----------------------------------------------------------------------------
(* Escrow: the refund after the deadline *)

\* C6: after the freeze of an escrow bundle built from one snapshot, while
\* the account holds the escrowed funds, neither the payment nor the refund
\* is in the ledger and the deadline has passed, the refund transaction is
\* valid with no signature.
C6_RefundAlwaysPossible ==
    (/\ kind = "escrow" /\ Frozen /\ SameSnapshot
     /\ acct.exists /\ acct.trust
     /\ acct.bul_balance >= args.payment + args.collateral
     /\ ~InLedger("payment_transaction")
     /\ ~InLedger("refund_transaction")
     /\ now >= args.deadline) =>
        TxValid(acct, Submitted("refund_transaction", {}), now)

----------------------------------------------------------------------------
(* Escrow: the merge comes last *)

\* C7: after the freeze of an escrow bundle built from one snapshot, the
\* merge transaction takes effect only when the refund or the payment
\* transaction is in the ledger.
C7_MergeAfterRefundOrPayment ==
    (kind = "escrow" /\ Frozen /\ SameSnapshot) =>
        ((\E i \in Entries("merge_transaction") : history[i].ok) =>
            \/ InLedger("refund_transaction")
            \/ InLedger("payment_transaction"))

----------------------------------------------------------------------------
(* Relay: the split and the two merges *)

\* the merge transactions of the relay bundle that took effect
MergesDone ==
    {i \in Entries("sequence_merge_transaction")
           \cup Entries("timelock_merge_transaction") : history[i].ok}

C9_TimelockMergeDrains ==
    (/\ kind = "relay" /\ Frozen /\ SameSnapshot
     /\ ~InLedger("relay_transaction")
     /\ acct.exists /\ acct.trust
     /\ acct.bul_balance = args.relayer_stroops + args.relayee_stroops) =>
        \A i \in Entries("timelock_merge_transaction") : history[i].ok

----------------------------------------------------------------------------
(* Escrow: what the freeze registers *)

\* C10: the freeze transaction of an escrow bundle registers the refund hash
\* with weight 2, the payment hash with weight 1, the merge hash with weight
\* 3 and the recipient's key with weight 1, then sets the master weight to 0
\* and the thresholds to low 1, medium 2, high 3; right after the ledger
\* includes it the account has exactly these signers and thresholds.
C10_EscrowFreezeSigners ==
    (kind = "escrow" /\ pc = "done") =>
        /\ import_from_xdr(details.set_options_transaction).tx.ops =
              <<[type |-> "set_options", signer_type |-> "preAuthTx",
                 signer_address |-> hash_meta(refund_envelope),
                 signer_weight |-> 2],
                [type |-> "set_options", signer_type |-> "preAuthTx",
                 signer_address |-> hash_meta(payment_envelope),
                 signer_weight |-> 1],
                [type |-> "set_options", signer_type |-> "preAuthTx",
                 signer_address |-> hash_meta(merge_envelope),
                 signer_weight |-> 3],
                [type |-> "set_options", signer_type |-> "ed25519PublicKey",
                 signer_address |-> args.recipient_pubkey,
                 signer_weight |-> 1],
                [type |-> "set_options", master_weight |-> 0,
                 low_threshold |-> 1, med_threshold |-> 2,
                 high_threshold |-> 3]>>
        /\ (history # <<>>
            /\ history[Len(history)].tx = "set_options_transaction") =>
              /\ acct.signers =
                    <<[type |-> "preAuthTx", weight |-> 2,
                       address |-> hash_meta(refund_envelope)],
                      [type |-> "preAuthTx", weight |-> 1,
                       address |-> hash_meta(payment_envelope)],
                      [type |-> "preAuthTx", weight |-> 3,
                       address |-> hash_meta(merge_envelope)],
                      [type |-> "ed25519PublicKey", weight |-> 1,
                       address |-> args.recipient_pubkey]>>
              /\ acct.master_weight = 0
              /\ acct.thresholds = [low |-> 1, med |-> 2, high |-> 3]

\* C10 witness: the freeze transaction of an escrow bundle is the last
\* transaction the ledger included.
C10_Witness ==
    /\ kind = "escrow" /\ pc = "done"
    /\ history # <<>>
    /\ history[Len(history)].tx = "set_options_transaction"

----------------------------------------------------------------------------
(* Escrow: what each signer of the frozen account reaches on its own *)

\* the freeze transaction is the last transaction the ledger included, and
\* it took effect: the account carries exactly the signers it registered
FreezeApplied ==
    /\ pc = "done"
    /\ history # <<>>
    /\ history[Len(history)].tx = "set_options_transaction"
    /\ history[Len(history)].ok

\* C11 as stated: on the frozen escrow account the refund hash alone reaches
\* the medium threshold, the merge hash alone reaches the high threshold, and
\* the payment hash alone stays below the low threshold, reaching the medium
\* threshold only together with the recipient's signature.
C11_PaymentBelowLow ==
    (kind = "escrow" /\ FreezeApplied) =>
        /\ SignatureWeight(acct, Submitted("refund_transaction", {}))
              >= acct.thresholds.med
        /\ SignatureWeight(acct, Submitted("merge_transaction", {}))
              >= acct.thresholds.high
        /\ SignatureWeight(acct, Submitted("payment_transaction", {}))
              < acct.thresholds.low
        /\ SignatureWeight(acct,
              Submitted("payment_transaction", {args.recipient_pubkey}))
              >= acct.thresholds.med

\* C11: on the frozen escrow account the refund hash alone reaches the medium
\* threshold and the merge hash alone reaches the high threshold; the payment
\* hash alone reaches the low threshold but stays below the medium threshold
\* its payment operation needs, and reaches it together with the recipient's
\* signature.
C11_PaymentBelowMedium ==
    (kind = "escrow" /\ FreezeApplied) =>
        /\ SignatureWeight(acct, Submitted("refund_transaction", {}))
              >= acct.thresholds.med
        /\ SignatureWeight(acct, Submitted("merge_transaction", {}))
              >= acct.thresholds.high
        /\ SignatureWeight(acct, Submitted("payment_transaction", {}))
              >= acct.thresholds.low
        /\ SignatureWeight(acct, Submitted("payment_transaction", {}))
              < acct.thresholds.med
        /\ SignatureWeight(acct,
              Submitted("payment_transaction", {args.recipient_pubkey}))
              >= acct.thresholds.med

\* C11 witness: the freeze of an escrow bundle took effect and the payment
\* transaction, unsigned, weighs exactly the low threshold.
C11_Witness ==
    /\ kind = "escrow" /\ FreezeApplied
    /\ SignatureWeight(acct, Submitted("payment_transaction", {}))
          = acct.thresholds.low
    /\ acct.thresholds.low = 1

----------------------------------------------------------------------------
(* Escrow: what the refund and the payment transaction pay *)

\* the operations of a transaction of the returned bundle
OpsOf(field) == import_from_xdr(details[field]).tx.ops

\* the transaction is one payment of the amount, in stroops, of the BUL
\* asset of the configured issuer to the destination
PaysBuls(field, destination, stroops) ==
    /\ Len(OpsOf(field)) = 1
    /\ OpsOf(field)[1].type = "payment"
    /\ OpsOf(field)[1].destination = destination
    /\ units_to_stroops(OpsOf(field)[1].amount) = stroops
    /\ OpsOf(field)[1].asset_code = BUL_TOKEN_CODE
    /\ OpsOf(field)[1].asset_issuer = ISSUER

\* C12: in every returned escrow bundle the refund transaction pays exactly
\* payment + collateral to the launcher and the payment transaction pays
\* exactly payment + collateral to the courier, both in the BUL asset.
C12_RefundAndPaymentAmounts ==
    (kind = "escrow" /\ pc = "done") =>
        /\ PaysBuls("refund_transaction", args.launcher_pubkey,
                    args.payment + args.collateral)
        /\ PaysBuls("payment_transaction", args.courier_pubkey,
                    args.payment + args.collateral)

\* C12 witness: an escrow bundle was returned for a positive payment and a
\* positive collateral, and its refund transaction carries their sum.
C12_Witness ==
    /\ kind = "escrow" /\ pc = "done"
    /\ args.payment > 0 /\ args.collateral > 0
    /\ units_to_stroops(OpsOf("refund_transaction")[1].amount)
          = args.payment + args.collateral
    /\ OpsOf("payment_transaction")[1].destination = "courier"

----------------------------------------------------------------------------
(* Relay: the sequence offsets and the time lock of the bundle *)

\* a transaction of the returned bundle, decoded
TxOf(field) == import_from_xdr(details[field]).tx

\* C13: in every returned relay bundle the relay transaction is two BUL
\* payments, relayer_stroops to the relayer and relayee_stroops to the
\* relayee; the relay transaction and the timelock-merge are both built one
\* above the sequence their builder read, the timelock-merge has the
\* deadline as its minimum time, the sequence-merge is built two above the
\* sequence its builder read and the freeze transaction at the sequence its
\* builder read.
C13_RelayOffsets ==
    (kind = "relay" /\ pc = "done") =>
        /\ Len(TxOf("relay_transaction").ops) = 2
        /\ \A i \in 1..2 :
              /\ TxOf("relay_transaction").ops[i].type = "payment"
              /\ TxOf("relay_transaction").ops[i].asset_code = BUL_TOKEN_CODE
              /\ TxOf("relay_transaction").ops[i].asset_issuer = ISSUER
        /\ TxOf("relay_transaction").ops[1].destination = args.relayer_pubkey
        /\ units_to_stroops(TxOf("relay_transaction").ops[1].amount)
              = args.relayer_stroops
        /\ TxOf("relay_transaction").ops[2].destination = args.relayee_pubkey
        /\ units_to_stroops(TxOf("relay_transaction").ops[2].amount)
              = args.relayee_stroops
        /\ TxOf("relay_transaction").sequence = snapshots[1] + 1
        /\ TxOf("sequence_merge_transaction").sequence = snapshots[2] + 2
        /\ TxOf("timelock_merge_transaction").sequence = snapshots[3] + 1
        /\ TxOf("timelock_merge_transaction").time_bounds
              = <<[minTime |-> args.deadline, maxTime |-> 0]>>
        /\ TxOf("set_options_transaction").sequence = snapshots[4]

\* C13 witness: a relay bundle was returned whose four builders read the
\* same sequence, so that the relay transaction and the timelock-merge share
\* one sequence number and the sequence-merge has the next one.
C13_Witness ==
    /\ kind = "relay" /\ SameSnapshot
    /\ TxOf("relay_transaction").sequence
          = TxOf("timelock_merge_transaction").sequence
    /\ TxOf("sequence_merge_transaction").sequence
          = TxOf("relay_transaction").sequence + 1
    /\ TxOf("set_options_transaction").sequence
          = TxOf("relay_transaction").sequence - 1
    /\ TxOf("timelock_merge_transaction").time_bounds[1].minTime
          = args.deadline

----------------------------------------------------------------------------
(* Relay: the signers of the frozen account *)

\* the pre-authorized transactions of a relay bundle
RelayPreAuthorized ==
    {"relay_transaction", "sequence_merge_transaction",
     "timelock_merge_transaction"}

\* the signers of the account, unsigned, give the transaction the weight
\* of the low threshold and of the threshold of each of its operations
MeetsOwnThresholds(field) ==
    /\ checkSignature(acct, Submitted(field, {}), acct.thresholds.low)
    /\ \A i \in DOMAIN TxOf(field).ops :
          checkSignature(acct, Submitted(field, {}),
                         NeededThreshold(acct, TxOf(field).ops[i]))

\* C14: the freeze transaction of a relay bundle registers the hashes of the
\* relay transaction, the sequence-merge and the timelock-merge at weight 1
\* each, sets the master weight to 0 and all three thresholds to 1; once it
\* took effect each of the three transactions alone meets every threshold
\* its operations need.
C14_RelayFreezeSigners ==
    (kind = "relay" /\ pc = "done") =>
        /\ TxOf("set_options_transaction").ops =
              <<[type |-> "set_options", signer_type |-> "preAuthTx",
                 signer_address |-> hash_meta(relay_envelope),
                 signer_weight |-> 1],
                [type |-> "set_options", signer_type |-> "preAuthTx",
                 signer_address |-> hash_meta(sequence_merge_envelope),
                 signer_weight |-> 1],
                [type |-> "set_options", signer_type |-> "preAuthTx",
                 signer_address |-> hash_meta(timelock_merge_envelope),
                 signer_weight |-> 1],
                [type |-> "set_options", master_weight |-> 0,
                 low_threshold |-> 1, med_threshold |-> 1,
                 high_threshold |-> 1]>>
        /\ FreezeApplied =>
              /\ acct.master_weight = 0
              /\ acct.thresholds = [low |-> 1, med |-> 1, high |-> 1]
              /\ Len(acct.signers) = 3
              /\ \A field \in RelayPreAuthorized : MeetsOwnThresholds(field)

\* C14 witness: the freeze of a relay bundle took effect and the
\* sequence-merge, unsigned, weighs 1, the high threshold its account merge
\* needs.
C14_Witness ==
    /\ kind = "relay" /\ FreezeApplied
    /\ SignatureWeight(acct, Submitted("sequence_merge_transaction", {})) = 1
    /\ NeededThreshold(acct, TxOf("sequence_merge_transaction").ops[2]) = 1
    /\ TxOf("sequence_merge_transaction").ops[2].type = "account_merge"

----------------------------------------------------------------------------
(* The composers return a whole bundle or nothing *)

\* C15: prepare_escrow and prepare_relay return nothing until all four
\* transactions are built: a call that raised has returned no bundle, and
\* every returned bundle holds the serializations of the four transactions
\* the call built.
C15_WholeBundleOrNothing ==
    /\ (pc # "done") => details = None
    /\ (pc = "raised") <=> (raised # None)
    /\ (pc = "done") =>
          /\ TransactionFields \subseteq DOMAIN details
          /\ details.set_options_transaction = xdr(set_options_envelope)
          /\ kind = "escrow" =>
                /\ details.refund_transaction = xdr(refund_envelope)
                /\ details.payment_transaction = xdr(payment_envelope)
                /\ details.merge_transaction = xdr(merge_envelope)
          /\ kind = "relay" =>
                /\ details.relay_transaction = xdr(relay_envelope)
                /\ details.sequence_merge_transaction
                      = xdr(sequence_merge_envelope)
                /\ details.timelock_merge_transaction
                      = xdr(timelock_merge_envelope)

\* C15 witness: a gen_builder call raised after the composer had built its
\* first transactions, and the call returned nothing.
C15_Witness ==
    /\ pc = "raised" /\ Built(2)
    /\ raised = "StellarAccountNotExists"
    /\ details = None

----------------------------------------------------------------------------
(* Composing against an account that does not exist *)

\* the composer has not made its first gen_builder call yet
NotStarted == pc \in {"refund", "relay"}

----------------------------------------------------------------------------
(* The parameters a returned bundle carries *)

\* the bundle carries the call's argument of that name
Carries(name) == name \in DOMAIN details /\ details[name] = args[name]

\* C17: a returned escrow bundle carries the escrow, launcher, courier and
\* recipient public keys, the payment, the collateral and the deadline of
\* the call, and a returned relay bundle carries the relay, relayer and
\* relayee public keys, both amounts and the deadline.
C17_BundleCarriesParameters ==
    (pc = "done") =>
        /\ kind = "escrow" =>
              \A name \in {"escrow_pubkey", "launcher_pubkey",
                           "courier_pubkey", "recipient_pubkey",
                           "payment", "collateral", "deadline"} :
                  Carries(name)
        /\ kind = "relay" =>
              \A name \in {"relay_pubkey", "relayer_pubkey",
                           "relayee_pubkey", "relayer_stroops",
                           "relayee_stroops", "deadline"} :
                  Carries(name)

----------------------------------------------------------------------------
(* The memos of a bundle *)

\* C19: in every returned escrow and relay bundle each of the four
\* transactions carries a memo, and the memos of the four transactions of
\* one bundle are pairwise distinct.
C19_MemosDistinct ==
    (pc = "done") =>
        /\ \A field \in TransactionFields : Len(TxOf(field).memo) > 0
        /\ \A f, g \in TransactionFields :
              f # g => TxOf(f).memo # TxOf(g).memo

----------------------------------------------------------------------------
(* add_memo: the length limit *)

\* C18: for every memo text add_memo sets, when the text is longer than 28
\* bytes, exactly its first 28 bytes, and otherwise the text unchanged; and
\* add_memo applied to the memo it has set sets the same memo again.
C18_MemoTruncatedToBytes ==
    (kind = "add_memo" /\ pc = "done") =>
        /\ encode(details.memo) =
              IF Len(encode(args.memo)) > max_byte_length
              THEN SubSeq(encode(args.memo), 1, max_byte_length)
              ELSE encode(args.memo)
        /\ add_memo(details, details.memo) = details

----------------------------------------------------------------------------
(* get_bul_account: the trust requirement *)

----------------------------------------------------------------------------
(* get_keypair: who holds signing material *)

\* C21: for every combination of the pubkey and seed arguments, a keypair
\* get_keypair creates from a public key (pubkey given, whatever the seed)
\* holds no signing key, and a keypair it creates from a seed (seed alone) or
\* at random (neither given) holds the signing key of its address.
C21_SigningMaterial ==
    (kind = "get_keypair" /\ pc = "done") =>
        /\ args.pubkey # Omitted =>
              /\ details.class = "DisplayKeypair"
              /\ details.signing_key = None
              /\ details.verifying_key = args.pubkey[1]
        /\ args.pubkey = Omitted =>
              /\ details.class = "DisplayUnlockedKeypair"
              /\ details.signing_key \in Seeds
              /\ details.verifying_key = AddressOf(details.signing_key)
        /\ (args.pubkey = Omitted /\ args.seed # Omitted) =>
              details.signing_key = args.seed[1]

\* C21 witness: get_keypair, given both a public key and a seed of another
\* address, returned the keypair of the public key with no signing key.
C21_Witness ==
    /\ kind = "get_keypair" /\ pc = "done"
    /\ args.pubkey = Given("address 1") /\ args.seed = Given("seed 2")
    /\ details.signing_key = None
    /\ details.verifying_key = "address 1"

----------------------------------------------------------------------------
(* gen_builder: the sequence a transaction is built at *)

\* the account after the ledger consumed n transactions of it, each built
\* at the sequence the account had by then
RECURSIVE AfterConsumed(_, _)
AfterConsumed(a, n) ==
    IF n = 0 THEN a
    ELSE AfterConsumed(Consume(a, gen_te(Builder(a.address, a.sequence))),
                       n - 1)

\* the ledger accepts, on the account a, a transaction of the builder with
\* one operation and the signature of the master key
Usable(builder, a) ==
    TxValid(a, [tx |-> append_account_merge_op(builder, "destination"),
                signatures |-> {a.address}], now)

\* the delta of the call as a number: 0 when omitted
DeltaOf(sequence_delta) ==
    IF sequence_delta = Omitted THEN 0 ELSE sequence_delta[1]

\* C22: on an account at sequence S, gen_builder with a delta >= 0 returns a
\* builder of the account at sequence S + delta; with delta 0 or no delta
\* that is S itself; and the ledger accepts a transaction of the builder
\* exactly when delta other transactions of the account have been consumed.
C22_SequenceAllocation ==
    (kind = "gen_builder" /\ pc = "done") =>
        /\ details.address = args.pubkey
        /\ details.sequence = acct.sequence + DeltaOf(args.sequence_delta)
        /\ DeltaOf(args.sequence_delta) = 0 =>
              details.sequence = acct.sequence
        /\ \A n \in 0..(MaxDelta + 1) :
              Usable(details, AfterConsumed(acct, n))
                 <=> n = DeltaOf(args.sequence_delta)

\* C22 witness: gen_builder with delta 2 on an account past its initial
\* sequence returned a builder two above the account's sequence, which the
\* ledger accepts after two transactions and not after one.
C22_Witness ==
    /\ kind = "gen_builder" /\ pc = "done"
    /\ args.sequence_delta = Given(2)
    /\ acct.sequence > InitialSequence
    /\ details.sequence = acct.sequence + 2
    /\ Usable(details, AfterConsumed(acct, 2))
    /\ ~Usable(details, AfterConsumed(acct, 1))

----------------------------------------------------------------------------
(* The freeze transactions: the order of their operations *)

\* the weight all signers of the account have together
RECURSIVE TotalWeight(_, _)
TotalWeight(signers, i) ==
    IF i > Len(signers) THEN 0
    ELSE signers[i].weight + TotalWeight(signers, i + 1)

\* the operations of the freeze transaction that register a signer, and
\* those that set the master weight and the thresholds
SignerOps ==
    {i \in DOMAIN TxOf("set_options_transaction").ops :
        "signer_address" \in DOMAIN TxOf("set_options_transaction").ops[i]}
MasterOps ==
    {i \in DOMAIN TxOf("set_options_transaction").ops :
        "master_weight" \in DOMAIN TxOf("set_options_transaction").ops[i]}

\* C23: in the freeze transaction of every returned bundle all signers are
\* registered before the one operation that sets the master weight to 0 and
\* the thresholds; and in every state after the freeze was applied the
\* master key of the account is dead and the signers of the account
\* together reach each of its thresholds.
C23_FreezeNeverLocksOut ==
    /\ (pc = "done") =>
          /\ Cardinality(MasterOps) = 1
          /\ Cardinality(SignerOps) = IF kind = "escrow" THEN 4 ELSE 3
          /\ \A i \in SignerOps : \A j \in MasterOps : i < j
          /\ \A j \in MasterOps :
                TxOf("set_options_transaction").ops[j].master_weight = 0
    /\ (Frozen /\ acct.exists) =>
          /\ acct.master_weight = 0
          /\ TotalWeight(acct.signers, 1) >= acct.thresholds.low
          /\ TotalWeight(acct.signers, 1) >= acct.thresholds.med
          /\ TotalWeight(acct.signers, 1) >= acct.thresholds.high

----------------------------------------------------------------------------
(* The pre-authorization hashes and the returned transactions *)

\* the content hash of a transaction of the returned bundle
HashOf(field) == hash_meta(import_from_xdr(details[field]))

\* the address the i-th operation of the returned freeze registers
Registered(i) == TxOf("set_options_transaction").ops[i].signer_address

\* C24: in every returned bundle the hashes the freeze transaction registers
\* are, in order, the content hashes of the three pre-authorized
\* transactions as the bundle returns them, with their operations,
\* sequence, time bounds and memo.
C24_HashOfReturnedTransaction ==
    (pc = "done") =>
        /\ kind = "escrow" =>
              /\ Registered(1) = HashOf("refund_transaction")
              /\ Registered(2) = HashOf("payment_transaction")
              /\ Registered(3) = HashOf("merge_transaction")
        /\ kind = "relay" =>
              /\ Registered(1) = HashOf("relay_transaction")
              /\ Registered(2) = HashOf("sequence_merge_transaction")
              /\ Registered(3) = HashOf("timelock_merge_transaction")
        /\ \A i \in 1..3 :
              TxOf("set_options_transaction").ops[i].signer_type = "preAuthTx"

\* C24 witness: an escrow bundle was returned whose freeze registers the hash
\* of the returned refund transaction, which has its time bounds and its
\* memo, and that hash is not the hash of the same transaction without them.
C24_Witness ==
    /\ kind = "escrow" /\ pc = "done"
    /\ Registered(1) = HashOf("refund_transaction")
    /\ TxOf("refund_transaction").memo = MemoRefund
    /\ TxOf("refund_transaction").time_bounds
          = <<[minTime |-> args.deadline, maxTime |-> 0]>>
    /\ Registered(1) #
          hash_meta(gen_te([TxOf("refund_transaction")
                               EXCEPT !.time_bounds = <<>>]))
    /\ Registered(1) #
          hash_meta(gen_te([TxOf("refund_transaction")
                               EXCEPT !.memo = MemoFreeze]))

====
